---- MODULE Spec2Model ----
(***************************************************************************)
(* Realtime session manager of the JARVIS front-end (App component,        *)
(* src/StatusPanel.tsx lines 49-456): connection lifecycle, reconnection   *)
(* with backoff, playback scheduling and transcript assembly.              *)
(*                                                                         *)
(* JavaScript runs one callback at a time, so every action below is the    *)
(* code a handler runs from one suspension point (await, timer, event) to  *)
(* the next.  The refs and React state of the component are the variables. *)
(* The handlers call one another (initSession -> handleReconnection ->     *)
(* cleanup), so each function is an operator from a state record to a      *)
(* state record and an action installs the record its handler ends with.   *)
(*                                                                         *)
(* Spec     the connection lifecycle: user toggles, initSession, the       *)
(*          channel's open/error/close events, handleReconnection, timers. *)
(* SpecPlay one open connection receiving audio chunks and interruptions,  *)
(*          the decodes, the output clock, and a user stop.                *)
(* SpecTurn one open connection receiving transcript fragments and turn    *)
(*          boundaries, and a user stop.                                   *)
(* SpecMsg  one open connection receiving messages of every kind.          *)
(* SpecTeardown                                                            *)
(*          cleanup, run by the unmount effect on a controller that never  *)
(*          connected or on a connection playing chunks.                   *)
(* SpecLog  the activity log by itself, under any sequence of addLog       *)
(*          calls.                                                         *)
(* SpecRetry                                                               *)
(*          one press of the button, then no user action and no socket     *)
(*          that opens; the event loop is fair.                            *)
(* The SYSTEM notices the lifecycle handlers pass to addLog are not        *)
(* recorded in `logs` under Spec; the entries of the message handler are.  *)
(***************************************************************************)
EXTENDS Integers, Sequences, FiniteSets, TLC

\* ------------------------------------------------------------ constants
MAX_RECONNECT_ATTEMPTS == 5
RECONNECT_DELAY_BASE == 3000
RECONNECT_DELAY_CEILING == 15000
LOG_CAP == 30

\* ------------------------------------------------------------ bounds
\* connection attempts whose callbacks can still run (slots of inits/chan)
MaxLive == 2
\* handleReconnection calls waiting in the cool-down at once
MaxHr == 2
\* disconnect calls waiting in the cool-down at once
MaxDisc == 1
\* pending timers that reconnectTimerRef no longer names
MaxStray == 1
\* messages delivered on the open connection (SpecPlay, SpecTurn)
MaxMsgs == 2
\* calls of addLog (SpecLog): more than LOG_CAP, so that entries are discarded
MaxLogCalls == 32
\* among them, calls whose entry is not the lifecycle notice (SpecLog)
MaxOdd == 1
\* inline data parts of one message
MaxParts == 1
\* duration of an audio chunk, in ticks of the output clock
MaxDur == 2
\* last reading of the output clock
MaxTime == 2

Ids == 1..MaxLive

VARIABLES
  status,              \* useState<JarvisStatus>
  isConnected,         \* useState(false)
  closureIsConnected,  \* the isConnected captured by the initSession closure in use
  isConnecting,        \* isConnectingRef
  isIntentionalDisconnect, \* isIntentionalDisconnectRef
  reconnectAttempts,   \* reconnectAttemptsRef
  session,             \* sessionRef: a channel id, 0 for null
  mediaStream,         \* mediaStreamRef is not null (the streams themselves are not tracked)
  scriptProcessor,     \* scriptProcessorRef is not null
  reconnectTimer,      \* reconnectTimerRef: "null", or the timer it names is "pending" or "spent"
  strayTimers,         \* pending timers whose id reconnectTimerRef has lost
  inits,               \* where each initSession invocation is suspended
  chan,                \* state of the channel each invocation created
  hr,                  \* handleReconnection calls waiting in cleanup's cool-down
  disc,                \* disconnect calls waiting in cleanup's cool-down
  apiKey,              \* process.env.API_KEY is set
  lockout,             \* history: the ceiling branch ran and no attempt has started since
  delays,              \* history: delays armed since reconnectAttempts was last 0
  note,                \* history: what the step just taken did, "" if nothing of note
  nextStartTime,       \* nextStartTimeRef (the playback cursor)
  sources,             \* sourcesRef
  transcriptionBuffer, \* transcriptionBufferRef
  logs,                \* useState<LogEntry[]>, newest first
  now,                 \* outputAudioContextRef.current.currentTime
  decoding,            \* onmessage invocations suspended at `await decodeAudioData`
  nMsg,                \* messages delivered so far
  started,             \* history: the chunks passed to sourceNode.start, in call order
  resetSince,          \* history: the cursor was reset to 0 since the last start
  raisedSince,         \* history: the cursor was raised to the clock since the last start
  added                \* history: every entry passed to addLog, oldest first

vars == <<status, isConnected, closureIsConnected, isConnecting,
          isIntentionalDisconnect, reconnectAttempts, session, mediaStream,
          scriptProcessor, reconnectTimer, strayTimers, inits, chan,
          hr, disc, apiKey, lockout, delays, note,
          nextStartTime, sources, transcriptionBuffer, logs, now, decoding,
          nMsg, started, resetSince, raisedSince, added>>

JarvisStatus == {"IDLE", "LISTENING", "THINKING", "SPEAKING", "RECONNECTING", "ERROR"}

Min(a, b) == IF a < b THEN a ELSE b
Max(a, b) == IF a > b THEN a ELSE b

\* The component's state as one record.
S == [status |-> status, isConnected |-> isConnected,
      closureIsConnected |-> closureIsConnected, isConnecting |-> isConnecting,
      isIntentionalDisconnect |-> isIntentionalDisconnect,
      reconnectAttempts |-> reconnectAttempts, session |-> session,
      mediaStream |-> mediaStream, scriptProcessor |-> scriptProcessor,
      reconnectTimer |-> reconnectTimer, strayTimers |-> strayTimers,
      inits |-> inits, chan |-> chan, over |-> FALSE, thrown |-> FALSE,
      hr |-> hr, disc |-> disc,
      lockout |-> lockout, delays |-> delays, note |-> "",
      nextStartTime |-> nextStartTime, sources |-> sources,
      transcriptionBuffer |-> transcriptionBuffer, logs |-> logs,
      now |-> now, decoding |-> decoding, nMsg |-> nMsg, started |-> started,
      resetSince |-> resetSince, raisedSince |-> raisedSince, added |-> added]

Set(s) ==
  /\ status' = s.status
  /\ isConnected' = s.isConnected
  /\ closureIsConnected' = s.closureIsConnected
  /\ isConnecting' = s.isConnecting
  /\ isIntentionalDisconnect' = s.isIntentionalDisconnect
  /\ reconnectAttempts' = s.reconnectAttempts
  /\ session' = s.session
  /\ mediaStream' = s.mediaStream
  /\ scriptProcessor' = s.scriptProcessor
  /\ reconnectTimer' = s.reconnectTimer
  /\ strayTimers' = s.strayTimers
  /\ inits' = s.inits
  /\ chan' = s.chan
  /\ hr' = s.hr
  /\ disc' = s.disc
  /\ lockout' = s.lockout
  /\ delays' = s.delays
  /\ note' = s.note
  /\ nextStartTime' = s.nextStartTime
  /\ sources' = s.sources
  /\ transcriptionBuffer' = s.transcriptionBuffer
  /\ logs' = s.logs
  /\ now' = s.now
  /\ decoding' = s.decoding
  /\ nMsg' = s.nMsg
  /\ started' = s.started
  /\ resetSince' = s.resetSince
  /\ raisedSince' = s.raisedSince
  /\ added' = s.added
  /\ UNCHANGED apiKey

\* An attempt has nothing left to run once its initSession call has settled
\* (or waits on a socket that closed before it opened, whose promise never
\* settles), its socket has closed, and sessionRef does not name it.  Its slot
\* is then given back.
Spent(s, i) ==
  /\ \/ s.inits[i] \in {"none", "done"}
     \/ s.inits[i] = "connect" /\ s.chan[i] = "closed"
  /\ s.chan[i] \in {"none", "closed"}
  /\ s.session # i

Gc(s) ==
  [s EXCEPT !.inits = [i \in Ids |-> IF Spent(s, i) THEN "none" ELSE s.inits[i]],
            !.chan = [i \in Ids |-> IF Spent(s, i) THEN "none" ELSE s.chan[i]]]

FreeSlots(s) == {i \in Ids : s.inits[i] = "none" /\ s.chan[i] = "none"}

\* Slots are interchangeable names for attempts, so a state is kept with its
\* slots in one canonical order (by what each slot holds).
PcIdx(p) == CASE p = "none" -> 0 [] p = "gum" -> 1 [] p = "connect" -> 2
              [] p = "done" -> 3
ChIdx(c) == CASE c = "none" -> 0 [] c = "connecting" -> 1 [] c = "open" -> 2
              [] c = "closing" -> 3 [] c = "failed" -> 4 [] c = "closed" -> 5
Bit(b) == IF b THEN 1 ELSE 0
SlotCode(s, i) ==
  (PcIdx(s.inits[i]) * 6 + ChIdx(s.chan[i])) * 2 + Bit(s.session = i)
SlotOrders == Permutations(Ids)
Canon(s) ==
  LET code == [i \in Ids |-> SlotCode(s, i)]
      q == CHOOSE f \in SlotOrders :
             \A a \in 1..(MaxLive - 1) : code[f[a]] >= code[f[a + 1]]
      new == [j \in 0..MaxLive |-> IF j = 0 THEN 0 ELSE CHOOSE a \in Ids : q[a] = j]
  IN [s EXCEPT !.inits = [a \in Ids |-> s.inits[q[a]]],
               !.chan = [a \in Ids |-> s.chan[q[a]]],
               !.session = new[s.session]]

\* A handler's step: the state it ends with, within the bounds of the model.
Step(s) ==
  \E t \in {s} :
    /\ ~t.over
    /\ t.hr <= MaxHr
    /\ t.disc <= MaxDisc
    /\ t.strayTimers <= MaxStray
    /\ \E c \in {Canon(Gc(t))} : Set(c)

\* ------------------------------------------------------------ cleanup
\* session.close(): an open or connecting socket starts closing and reports
\* its close event later; on any other socket it does nothing.
SessionClose(c) == IF c \in {"connecting", "open"} THEN "closing" ELSE c

\* history: every handler suspended in a decode is marked with what happened
\* to the cursor meanwhile
Mark(d, f) == {[x EXCEPT ![f] = TRUE] : x \in d}

\* the releases cleanup performs: session.close(), scriptProcessor.disconnect(),
\* track.stop(), source.stop()
Releases == {"close", "disconnect", "stop", "source"}

\* cleanup without its try/catch blocks: the first release that throws ends
\* the function, and the exception reaches the caller
cleanupUnguarded(s, throws) ==
  LET s0 == [s EXCEPT !.decoding = Mark(@, "torn"), !.resetSince = TRUE]
      s1 == [s0 EXCEPT !.chan = IF s.session # 0
                                THEN [s.chan EXCEPT ![s.session] = SessionClose(@)]
                                ELSE @,
                       !.session = 0]
      s2 == [s1 EXCEPT !.scriptProcessor = FALSE]
      s3 == [s2 EXCEPT !.mediaStream = FALSE]
      s4 == [s3 EXCEPT !.sources = {},
                       !.isConnected = FALSE,
                       !.isConnecting = FALSE,
                       !.nextStartTime = 0]
  IN IF s.session # 0 /\ "close" \in throws THEN [s0 EXCEPT !.thrown = TRUE]
     ELSE IF s.scriptProcessor /\ "disconnect" \in throws THEN [s1 EXCEPT !.thrown = TRUE]
     ELSE IF s.mediaStream /\ "stop" \in throws THEN [s2 EXCEPT !.thrown = TRUE]
     ELSE IF s.sources # {} /\ "source" \in throws THEN [s3 EXCEPT !.thrown = TRUE]
     ELSE s4

\* cleanup up to its await (lines 107-133) when the releases in `throws` throw.
\* Each release is inside its own try/catch and the assignment that follows
\* it is outside, so a release that throws is skipped and nothing else is: a
\* close() that throws leaves the socket as it was.
cleanupThrows(s, throws) ==
  [s EXCEPT
     !.decoding = Mark(@, "torn"),
     !.resetSince = TRUE,
     !.chan = IF s.session # 0 /\ "close" \notin throws
              THEN [s.chan EXCEPT ![s.session] = SessionClose(@)] ELSE @,
     !.session = 0,
     !.scriptProcessor = FALSE,
     !.mediaStream = FALSE,
     !.sources = {},
     !.isConnected = FALSE,
     !.isConnecting = FALSE,
     !.nextStartTime = 0]

\* cleanup as the handlers below run it: no release throws
cleanup(s) == cleanupThrows(s, {})

\* ------------------------------------------------------------ reconnection
\* Math.min(15000, RECONNECT_DELAY_BASE * Math.pow(2, attempts - 1))
ReconnectDelayUncapped(n) == RECONNECT_DELAY_BASE * 2^(n - 1)
ReconnectDelay(n) ==
  Min(RECONNECT_DELAY_CEILING, RECONNECT_DELAY_BASE * 2^(n - 1))

\* reconnectTimerRef.current = window.setTimeout(...): the ref takes the new
\* id; a timer it named before, if still pending, can no longer be cleared.
setTimeout(s) ==
  [s EXCEPT !.strayTimers = IF s.reconnectTimer = "pending" THEN @ + 1 ELSE @,
            !.reconnectTimer = "pending"]

\* window.clearTimeout(reconnectTimerRef.current)
clearTimeout(s) ==
  [s EXCEPT !.reconnectTimer = IF @ = "pending" THEN "spent" ELSE @]

\* handleReconnection up to `await cleanup()`: the rest runs after the cool-down.
handleReconnection(s) == [cleanup(s) EXCEPT !.hr = @ + 1]

\* the rest of handleReconnection (lines 316-332)
handleReconnectionRest(s) ==
  IF s.isIntentionalDisconnect THEN s
  ELSE IF s.reconnectAttempts < MAX_RECONNECT_ATTEMPTS
  THEN LET n == s.reconnectAttempts + 1
       IN setTimeout([s EXCEPT !.reconnectAttempts = n,
                               !.delays = Append(@, ReconnectDelay(n))])
  ELSE [s EXCEPT !.status = "ERROR",
                 !.reconnectAttempts = 0,
                 !.delays = <<>>,
                 !.lockout = TRUE]

\* ------------------------------------------------------------ initSession
\* the catch block of initSession (lines 305-311)
initSessionCatch(s) ==
  handleReconnection([s EXCEPT !.isConnecting = FALSE, !.status = "ERROR"])

\* the two early returns of initSession (lines 151-152)
initSessionGuard(s) ==
  /\ ~s.isConnecting
  /\ ~(s.closureIsConnected /\ ~s.isIntentionalDisconnect)

\* initSession up to `await getUserMedia` (lines 151-172)
initSession(s) ==
  IF ~initSessionGuard(s) THEN s
  ELSE IF FreeSlots(Gc(s)) = {} THEN [s EXCEPT !.over = TRUE]
  ELSE LET g == Gc(s)
           i == CHOOSE k \in FreeSlots(g) : \A j \in FreeSlots(g) : k <= j
           s1 == [g EXCEPT !.isConnecting = TRUE,
                           !.lockout = FALSE,
                           !.status = IF s.reconnectAttempts = 0
                                      THEN "THINKING" ELSE "RECONNECTING"]
       IN IF ~apiKey
          THEN initSessionCatch([s1 EXCEPT !.isConnecting = FALSE])
          ELSE [s1 EXCEPT !.inits[i] = "gum"]

\* getUserMedia resolves: lines 173-185, up to `await sessionPromise` (304).
\* The audio contexts are running, so neither resume() (182-183) is awaited;
\* ai.live.connect creates the socket of this attempt.
GumResolve(i) ==
  /\ inits[i] = "gum"
  /\ Step([S EXCEPT !.mediaStream = TRUE,
                    !.inits[i] = "connect",
                    !.chan[i] = "connecting"])

\* getUserMedia or the connect promise rejects: the catch block (305-311).
\* A connect that rejects does so before its socket has reported anything,
\* and that socket reports nothing afterwards.
InitReject(i) ==
  /\ \/ inits[i] = "gum"
     \/ inits[i] = "connect" /\ chan[i] = "connecting"
  /\ Step(initSessionCatch([S EXCEPT !.inits[i] = "done",
                                     !.chan[i] = IF @ = "connecting" THEN "closed" ELSE @]))

\* ------------------------------------------------------------ channel events
\* onopen (lines 188-218)
onopen(s, i) ==
  [s EXCEPT !.isConnected = TRUE,
            !.isConnecting = FALSE,
            !.status = "IDLE",
            !.isIntentionalDisconnect = FALSE,
            !.reconnectAttempts = 0,
            !.delays = <<>>,
            !.scriptProcessor = TRUE]

\* `sessionRef.current = await sessionPromise` (line 304): the promise resolves
\* when the handshake completes, and the continuation runs in the same task,
\* right after the onopen callback.
connectResolved(s, i) ==
  IF s.inits[i] = "connect" THEN [s EXCEPT !.inits[i] = "done", !.session = i] ELSE s

\* The socket opens: the onopen callback, then the awaiting initSession.
OnOpen(i) ==
  /\ chan[i] = "connecting"
  /\ Step(connectResolved(onopen([S EXCEPT !.chan[i] = "open"], i), i))

\* onerror (lines 279-285) and onclose (lines 286-292)
onerror(s) ==
  IF ~s.isIntentionalDisconnect THEN handleReconnection(s)
  ELSE [s EXCEPT !.note = "suppressed"]
oncloseUnguarded(s) == handleReconnection(s)
onclose(s) ==
  IF ~s.isIntentionalDisconnect THEN handleReconnection(s)
  ELSE [s EXCEPT !.note = "suppressed"]

\* The socket reports an error: it has failed and its close event is still due.
OnError(i) ==
  /\ chan[i] \in {"connecting", "open", "closing"}
  /\ Step(onerror([S EXCEPT !.chan[i] = "failed"]))

\* The socket reports its close: after a failure, after the peer closed, or
\* after session.close().
OnClose(i) ==
  /\ chan[i] \in {"connecting", "open", "closing", "failed"}
  /\ Step(onclose([S EXCEPT !.chan[i] = "closed"]))

\* ------------------------------------------------------------ timers, cool-down
\* the cool-down of a handleReconnection call elapses
ReconnectionContinue ==
  /\ hr > 0
  /\ Step(handleReconnectionRest([S EXCEPT !.hr = @ - 1]))

\* the reconnect timer callback (lines 323-327)
timerCallback(s) == IF ~s.isIntentionalDisconnect THEN initSession(s) ELSE s

\* the timer reconnectTimerRef names fires
TimerFire ==
  /\ reconnectTimer = "pending"
  /\ Step(timerCallback([S EXCEPT !.reconnectTimer = "spent"]))

\* a timer reconnectTimerRef no longer names fires
StrayTimerFire ==
  /\ strayTimers > 0
  /\ Step(timerCallback([S EXCEPT !.strayTimers = @ - 1]))

\* ------------------------------------------------------------ user
\* disconnect up to `await cleanup()` (lines 140-142)
disconnect(s) ==
  LET s1 == [s EXCEPT !.isIntentionalDisconnect = TRUE]
      s2 == IF s1.reconnectTimer # "null" THEN clearTimeout(s1) ELSE s1
  IN [cleanup(s2) EXCEPT !.disc = @ + 1]

\* the rest of disconnect (lines 143-147)
disconnectRest(s) ==
  [s EXCEPT !.status = "IDLE", !.reconnectAttempts = 0, !.delays = <<>>]

DisconnectContinue ==
  /\ disc > 0
  /\ Step(disconnectRest([S EXCEPT !.disc = @ - 1]))

\* toggleSession (lines 342-350), called from the render that shows isConnected
toggleSession(s) ==
  IF s.isConnected \/ s.isConnecting
  THEN disconnect(s)
  ELSE initSession([s EXCEPT !.reconnectAttempts = 0,
                             !.delays = <<>>,
                             !.isIntentionalDisconnect = FALSE,
                             !.closureIsConnected = s.isConnected])

\* the button is disabled while isConnectingRef is set (line 370): every step
\* that changes the ref also sets React state, so the rendered button follows
\* the ref
ToggleSession ==
  /\ ~isConnecting
  /\ Step(toggleSession(S))

\* ------------------------------------------------------------ messages
\* addLog (lines 96-104): newest first, at most LOG_CAP entries.  A message is
\* kept as the sequence of the pieces it was concatenated from; the random id
\* and the wall-clock timestamp of an entry are not modelled.
addLogKeepsOldest(s, message, source) ==
  LET newLog == [source |-> source, message |-> message]
      l == <<newLog>> \o s.logs
  IN [s EXCEPT !.logs = SubSeq(l, Len(l) - Min(Len(l), LOG_CAP) + 1, Len(l)),
               !.added = Append(@, newLog)]
addLog(s, message, source) ==
  LET newLog == [source |-> source, message |-> message]
      l == <<newLog>> \o s.logs
  IN [s EXCEPT !.logs = SubSeq(l, 1, Min(Len(l), LOG_CAP)),
               !.added = Append(@, newLog)]

HolodeskNotice == <<"Initiating Holodesk Projection Sequence...">>
InterruptedNotice == <<"Synthesis Interrupted. Buffer Purged.">>

\* decodeAudioData (utils/audioUtils) turns 16-bit mono PCM bytes into a
\* buffer of duration sampleCount / sampleRate; the model's clock ticks once
\* per sample.
decodeAudioData(bytes) == bytes \div 2

\* the transcription branches of onmessage (lines 220-230); a fragment is a
\* non-empty text, "" stands for an absent transcription
transcriptionKeepsStatus(s, m) ==
  IF m.output # ""
  THEN [s EXCEPT !.transcriptionBuffer.output = Append(@, m.output)]
  ELSE IF m.input # ""
  THEN [s EXCEPT !.transcriptionBuffer.input = Append(@, m.input)]
  ELSE s
transcription(s, m) ==
  IF m.output # ""
  THEN [s EXCEPT !.transcriptionBuffer.output = Append(@, m.output),
                 !.status = "SPEAKING"]
  ELSE IF m.input # ""
  THEN [s EXCEPT !.transcriptionBuffer.input = Append(@, m.input),
                 !.status = "LISTENING"]
  ELSE s

\* the turnComplete block of onmessage (lines 232-242)
turnCompleteKeepsBuffers(s, m) ==
  IF ~m.turnComplete THEN s
  ELSE LET input == s.transcriptionBuffer.input
           output == s.transcriptionBuffer.output
           s1 == IF input # <<>> THEN addLog(s, input, "USER") ELSE s
           s2 == IF output # <<>> THEN addLog(s1, output, "JARVIS") ELSE s1
       IN [s2 EXCEPT !.status = "IDLE"]
turnComplete(s, m) ==
  IF ~m.turnComplete THEN s
  ELSE LET input == s.transcriptionBuffer.input
           output == s.transcriptionBuffer.output
           s1 == IF input # <<>> THEN addLog(s, input, "USER") ELSE s
           s2 == IF output # <<>> THEN addLog(s1, output, "JARVIS") ELSE s1
       IN [s2 EXCEPT !.transcriptionBuffer = [input |-> <<>>, output |-> <<>>],
                     !.status = "IDLE"]

\* the interrupted block of onmessage (lines 270-277)
interrupted(s, h) ==
  IF ~h.interrupted THEN s
  ELSE addLog([s EXCEPT !.sources = {},
                        !.nextStartTime = 0,
                        !.status = "IDLE",
                        !.decoding = Mark(@, "cut"),
                        !.resetSince = TRUE],
              InterruptedNotice, "SYSTEM")

\* the loop over the parts (lines 244-268) from part k on, up to the await of
\* the next audio part; after the last part, the interrupted block.  h is the
\* invocation: its message's number, parts and interrupted flag.
RECURSIVE parts(_, _, _)
parts(s, h, k) ==
  IF k > Len(h.parts) THEN interrupted(s, h)
  ELSE IF h.parts[k].kind = "image"
  THEN parts(addLog(s, HolodeskNotice, "JARVIS"), h, k + 1)
  ELSE LET raise == s.now > s.nextStartTime
       IN [s EXCEPT
             !.nextStartTime = Max(@, s.now),
             !.raisedSince = @ \/ raise,
             !.decoding = (IF raise THEN Mark(@, "moved") ELSE @) \cup
                {[seq |-> h.seq, parts |-> h.parts, interrupted |-> h.interrupted,
                  part |-> k, recvNow |-> s.now, recvCursor |-> s.nextStartTime,
                  cut |-> FALSE, torn |-> FALSE, moved |-> FALSE]}]

\* onmessage up to its first await (lines 220-255)
onmessage(s, m) ==
  parts(turnComplete(transcription(s, m), m),
        [seq |-> s.nMsg, parts |-> m.parts, interrupted |-> m.interrupted], 1)

\* a message arrives on the open socket (or on one that is still closing)
OnMessage(m) ==
  /\ nMsg < MaxMsgs
  /\ \E i \in Ids : chan[i] \in {"open", "closing"}
  /\ Step(onmessage([S EXCEPT !.nMsg = @ + 1], m))

\* the decode of invocation d resolves: lines 256-264, then the loop goes on
decoded(s, d) ==
  LET dur == decodeAudioData(d.parts[d.part].bytes)
      src == [seq |-> d.seq, part |-> d.part, start |-> s.nextStartTime,
              dur |-> dur, at |-> s.now, recvNow |-> d.recvNow,
              recvCursor |-> d.recvCursor,
              cut |-> d.cut, torn |-> d.torn, moved |-> d.moved,
              afterReset |-> s.resetSince, raised |-> s.raisedSince]
  IN parts([s EXCEPT !.decoding = Mark(@ \ {d}, "moved"),
                     !.sources = @ \cup {src},
                     !.nextStartTime = @ + dur,
                     !.started = Append(@, src),
                     !.resetSince = FALSE,
                     !.raisedSince = FALSE],
           d, d.part + 1)

\* Decodes resolve in no particular order.
DecodeDone ==
  \E d \in decoding : Step(decoded(S, d))

\* the 'ended' listener (line 260): playback of a source finished
SourceEnded ==
  \E src \in sources :
    /\ now >= src.start + src.dur
    /\ Step([S EXCEPT !.sources = @ \ {src}])

\* the output clock advances
Tick ==
  /\ now < MaxTime
  /\ Step([S EXCEPT !.now = @ + 1])

\* the user presses the button while the session is connected
StopSession ==
  /\ isConnected
  /\ Step(toggleSession(S))

\* message inputs
SeqsUpTo(X, n) == UNION {[1..k -> X] : k \in 0..n}
Frags == {"Hello", " there"}
ImagePart == [kind |-> "image", bytes |-> 0]
AudioParts == {[kind |-> "audio", bytes |-> 2 * d] : d \in 1..MaxDur}
AudioMsgs ==
  [input : {""}, output : {""}, turnComplete : {FALSE},
   parts : SeqsUpTo(AudioParts \cup {ImagePart}, MaxParts), interrupted : BOOLEAN]
TextMsgs ==
  [input : Frags \cup {""}, output : Frags \cup {""}, turnComplete : BOOLEAN,
   parts : {<<>>}, interrupted : BOOLEAN]

\* ------------------------------------------------------------ specification
Init ==
  /\ status = "IDLE"
  /\ isConnected = FALSE
  /\ closureIsConnected = FALSE
  /\ isConnecting = FALSE
  /\ isIntentionalDisconnect = FALSE
  /\ reconnectAttempts = 0
  /\ session = 0
  /\ mediaStream = FALSE
  /\ scriptProcessor = FALSE
  /\ reconnectTimer = "null"
  /\ strayTimers = 0
  /\ inits = [i \in Ids |-> "none"]
  /\ chan = [i \in Ids |-> "none"]
  /\ hr = 0
  /\ disc = 0
  /\ apiKey \in BOOLEAN
  /\ lockout = FALSE
  /\ delays = <<>>
  /\ note = ""
  /\ nextStartTime = 0
  /\ sources = {}
  /\ transcriptionBuffer = [input |-> <<>>, output |-> <<>>]
  /\ logs = <<>>
  /\ now = 0
  /\ decoding = {}
  /\ nMsg = 0
  /\ started = <<>>
  /\ resetSince = FALSE
  /\ raisedSince = FALSE
  /\ added = <<>>

Next ==
  \/ ToggleSession
  \/ \E i \in Ids : GumResolve(i)
  \/ \E i \in Ids : InitReject(i)
  \/ \E i \in Ids : OnOpen(i)
  \/ \E i \in Ids : OnError(i)
  \/ \E i \in Ids : OnClose(i)
  \/ ReconnectionContinue
  \/ TimerFire
  \/ StrayTimerFire
  \/ DisconnectContinue

Spec == Init /\ [][Next]_vars

\* The state after the first connection has opened
\* (ToggleSession, GumResolve, OnOpen).
InitConnected ==
  /\ status = "IDLE"
  /\ isConnected = TRUE
  /\ closureIsConnected = FALSE
  /\ isConnecting = FALSE
  /\ isIntentionalDisconnect = FALSE
  /\ reconnectAttempts = 0
  /\ session = 1
  /\ mediaStream = TRUE
  /\ scriptProcessor = TRUE
  /\ reconnectTimer = "null"
  /\ strayTimers = 0
  /\ inits = [i \in Ids |-> IF i = 1 THEN "done" ELSE "none"]
  /\ chan = [i \in Ids |-> IF i = 1 THEN "open" ELSE "none"]
  /\ hr = 0
  /\ disc = 0
  /\ apiKey = TRUE
  /\ lockout = FALSE
  /\ delays = <<>>
  /\ note = ""
  /\ nextStartTime = 0
  /\ sources = {}
  /\ transcriptionBuffer = [input |-> <<>>, output |-> <<>>]
  /\ logs = <<>>
  /\ now = 0
  /\ decoding = {}
  /\ nMsg = 0
  /\ started = <<>>
  /\ resetSince = FALSE
  /\ raisedSince = FALSE
  /\ added = <<>>

\* playback: audio messages, decodes, the clock, a user stop
NextPlay ==
  \/ \E m \in AudioMsgs : OnMessage(m)
  \/ DecodeDone
  \/ SourceEnded
  \/ Tick
  \/ StopSession
  \/ DisconnectContinue

SpecPlay == InitConnected /\ [][NextPlay]_vars

\* transcripts: text messages and a user stop
NextTurn ==
  \/ \E m \in TextMsgs : OnMessage(m)
  \/ StopSession
  \/ DisconnectContinue

SpecTurn == InitConnected /\ [][NextTurn]_vars

\* messages carrying one inline part, an audio chunk or an image
MediaMsgs ==
  [input : {""}, output : {""}, turnComplete : {FALSE},
   parts : {<<[kind |-> "audio", bytes |-> 2]>>, <<ImagePart>>},
   interrupted : BOOLEAN]

\* every kind of inbound message on one open connection, and the decodes
NextMsg ==
  \/ \E m \in TextMsgs \cup MediaMsgs : OnMessage(m)
  \/ DecodeDone

SpecMsg == InitConnected /\ [][NextMsg]_vars

\* the unmount effect (lines 335-340): clearTimeout, then cleanup, whose
\* cool-down nothing waits for
unmount(s, throws) ==
  cleanupThrows(IF s.reconnectTimer # "null" THEN clearTimeout(s) ELSE s, throws)

Unmount(throws) ==
  /\ throws \subseteq Releases
  /\ Step(unmount(S, throws))

\* one chunk of audio, no transcript
ChunkMsg ==
  [input |-> "", output |-> "", turnComplete |-> FALSE,
   parts |-> <<[kind |-> "audio", bytes |-> 2]>>, interrupted |-> FALSE]

\* teardown: a controller that never connected or a connection playing
\* chunks, and the unmount effect with any of its releases throwing
InitTeardown == Init \/ InitConnected

NextTeardown ==
  \/ OnMessage(ChunkMsg)
  \/ DecodeDone
  \/ \E throws \in SUBSET Releases : Unmount(throws)

SpecTeardown == InitTeardown /\ [][NextTeardown]_vars

\* the activity log by itself: addLog called with entries of any source
LinkNotice == <<"Establishing Neural Bridge...">>
IsOdd(e) == e # [source |-> "SYSTEM", message |-> LinkNotice]
LogInputs ==
  [source : {"SYSTEM", "USER", "JARVIS"}, message : {LinkNotice, <<"Hello">>}]

AddLog(e) ==
  /\ Len(added) < MaxLogCalls
  /\ IsOdd(e) => Len(SelectSeq(added, IsOdd)) < MaxOdd
  /\ Step(addLog(S, e.message, e.source))

NextLog == \E e \in LogInputs : AddLog(e)

SpecLog == Init /\ [][NextLog]_vars

TimerPending == reconnectTimer = "pending" \/ strayTimers > 0

\* ------------------------------------------------------------ C1
BackoffTable == <<3000, 6000, 12000, 15000, 15000>>

\* C1: the delays armed for reconnection attempts 1..5, in the order they are
\* armed while reconnectAttempts counts up from 0, are 3000, 6000, 12000,
\* 15000, 15000 ms: the k-th delay armed is the k-th entry of the table, and
\* as many delays have been armed as reconnectAttempts counts.
C1_BackoffSequence ==
  /\ Len(delays) = reconnectAttempts
  /\ Len(delays) <= Len(BackoffTable)
  /\ \A k \in 1..Len(delays) : delays[k] = BackoffTable[k]

\* all five attempts have been armed
C1_Witness == reconnectAttempts = MAX_RECONNECT_ATTEMPTS /\ Len(delays) = 5 /\ TimerPending

\* ------------------------------------------------------------ C2
\* C2: once the ceiling branch has set Error, and until a connection attempt
\* is started by the user, the state is Error and no reconnection timer is
\* pending (so no automatic attempt can start).
C2_CeilingStops == lockout => (status = "ERROR" /\ ~TimerPending)

\* ------------------------------------------------------------ C3
ChannelFailure == \E i \in Ids : OnError(i) \/ OnClose(i)

C4_FatalLocalNotRetried == ~apiKey => (reconnectAttempts = 0 /\ ~TimerPending)

\* ------------------------------------------------------------ C5
\* attempts past the guard that can still proceed: waiting for the microphone
\* or for the handshake of a socket that has not failed
InFlight == {i \in Ids : inits[i] = "gum" \/ (inits[i] = "connect" /\ chan[i] = "connecting")}

\* C5: at most one connection attempt is in progress at any moment.
C5_SingleAttempt == Cardinality(InFlight) <= 1

\* ------------------------------------------------------------ C6
\* C6: an onopen that arrives while isIntentionalDisconnect is set (the user
\* disconnected during the handshake) does not mark the session connected,
\* does not clear the flag and does not wire a capture processor.
C6_LateOpenIgnored ==
  [][ (isIntentionalDisconnect /\ \E i \in Ids : OnOpen(i)) =>
         /\ ~isConnected'
         /\ isIntentionalDisconnect'
         /\ scriptProcessor' = scriptProcessor
         /\ status' = status
    ]_vars

\* ------------------------------------------------------------ C7
\* no interruption and no teardown ran between a chunk's receipt and its start
Undisturbed(c) == ~c.cut /\ ~c.torn

\* C7: a chunk scheduled with no interruption or teardown since its message
\* was handled starts at max(cursor, now), that is at the cursor and not
\* before the output clock; the cursor after a start is that start + the
\* chunk's duration; with no reset since the previous start a chunk starts no
\* earlier than the previous chunk's start + duration, with gap 0 unless a
\* message found the cursor behind the clock.
C7_CursorMonotone ==
  /\ \A k \in 1..Len(started) :
       LET c == started[k] IN
       /\ Undisturbed(c) => c.start >= c.at
       /\ (k > 1 /\ ~c.afterReset) =>
            /\ c.start >= started[k - 1].start + started[k - 1].dur
            /\ ~c.raised => c.start = started[k - 1].start + started[k - 1].dur
  /\ (started # <<>> /\ ~resetSince) =>
       LET l == started[Len(started)] IN
       /\ nextStartTime >= l.start + l.dur
       /\ ~raisedSince => nextStartTime = l.start + l.dur

\* ------------------------------------------------------------ C8
\* C8: no chunk whose message was handled before an interruption is playing
\* after it, and a chunk scheduled after an interruption (with no teardown
\* since its message was handled) starts no earlier than the output clock.
C8_InterruptionReset ==
  /\ \A s \in sources : ~s.cut
  /\ \A k \in 1..Len(started) :
       (started[k].afterReset /\ ~started[k].torn) =>
          started[k].start >= started[k].at

\* ------------------------------------------------------------ C9
\* C9: chunks are started in the order their messages arrived (and, within a
\* message, in the order of its parts).
C9_ArrivalOrder ==
  \A j, k \in 1..Len(started) :
    j < k => \/ started[j].seq < started[k].seq
             \/ started[j].seq = started[k].seq /\ started[j].part < started[k].part

\* ------------------------------------------------------------ C10
NewEntries == SubSeq(logs', 1, Len(logs') - Len(logs))
IsUser(e) == e.source = "USER"
IsAssistant(e) == e.source = "JARVIS"
IsSystemTurn(e) == e.source = "SYSTEM" /\ e.message # InterruptedNotice
Entry(source, message) ==
  IF message # <<>> THEN <<[source |-> source, message |-> message]>> ELSE <<>>

\* the step is the handling of message m (the first two conjuncts follow from
\* the third and spare its evaluation for the other messages)
Handles(m) ==
  /\ nMsg' = nMsg + 1
  /\ logs' = onmessage(S, m).logs
  /\ OnMessage(m)

\* C10: when a message carrying the turn-complete signal (and at most one
\* transcript fragment of its own) is handled, the entries logged are exactly
\* one USER entry holding the input buffer's fragments in arrival order iff
\* that buffer is non-empty and one JARVIS entry holding the output buffer's
\* fragments iff that buffer is non-empty (besides the SYSTEM notice of an
\* interruption carried by the same message), and both buffers are empty
\* afterwards.
C10_TurnAssembly ==
  [][ \A m \in TextMsgs :
        (m.turnComplete /\ (m.input = "" \/ m.output = "") /\ Handles(m)) =>
          LET input == transcriptionBuffer.input \o
                         (IF m.input # "" THEN <<m.input>> ELSE <<>>)
              output == transcriptionBuffer.output \o
                         (IF m.output # "" THEN <<m.output>> ELSE <<>>)
          IN /\ SelectSeq(NewEntries, IsUser) = Entry("USER", input)
             /\ SelectSeq(NewEntries, IsAssistant) = Entry("JARVIS", output)
             /\ SelectSeq(NewEntries, IsSystemTurn) = <<>>
             /\ transcriptionBuffer' = [input |-> <<>>, output |-> <<>>]
    ]_vars

\* the turn "Hello" + " there" has just been logged as one USER entry
C10_Witness ==
  /\ logs = <<[source |-> "USER", message |-> <<"Hello", " there">>]>>
  /\ transcriptionBuffer = [input |-> <<>>, output |-> <<>>]
  /\ nMsg = 2

\* ------------------------------------------------------------ C11
\* C11: after any sequence of addLog calls the log holds min(n, 30) entries,
\* and they are the most recent entries added, newest first: the k-th entry
\* of the log is the k-th most recent entry added.
C11_LogBound ==
  /\ Len(logs) = Min(Len(added), LOG_CAP)
  /\ \A k \in 1..Len(logs) : logs[k] = added[Len(added) - k + 1]

\* more entries were added than the log holds, and the first one added, a
\* USER entry, is among those discarded
C11_Witness ==
  /\ Len(added) > LOG_CAP
  /\ Len(logs) = LOG_CAP
  /\ added[1].source = "USER"
  /\ \A k \in 1..Len(logs) : logs[k].source = "SYSTEM"

\* ------------------------------------------------------------ C12
\* C12: reconnectAttempts is 0 right after every onopen and right after every
\* completed disconnect, and it is still 0 when the first failure of the
\* opened connection is handled, so that this failure arms attempt 1.
C12_ResetPoints ==
  [][ /\ (\E i \in Ids : OnOpen(i)) => reconnectAttempts' = 0
      /\ DisconnectContinue => reconnectAttempts' = 0
      /\ (isConnected /\ ~isIntentionalDisconnect /\ ChannelFailure) =>
            reconnectAttempts = 0
    ]_vars

\* ------------------------------------------------------------ C13
\* what cleanup leaves: no exception, the refs null, no sources, cursor 0
TornDown(c) ==
  /\ ~c.thrown
  /\ c.session = 0
  /\ ~c.scriptProcessor
  /\ ~c.mediaStream
  /\ c.sources = {}
  /\ c.nextStartTime = 0
  /\ ~c.isConnecting
  /\ ~c.isConnected

\* C13: cleanup, run in any state (connected and playing, already torn down,
\* never connected), raises nothing whichever of its releases throw and
\* leaves channel, processor and stream null, no active source, cursor 0 and
\* isConnecting false; a second cleanup right after it, whichever releases
\* throw, raises nothing and leaves the state exactly as the first left it.
C13_IdempotentTeardown ==
  \A t1, t2 \in SUBSET Releases :
    LET c1 == cleanupThrows(S, t1)
    IN /\ TornDown(c1)
       /\ cleanupThrows(c1, t2) = c1

\* the component was unmounted while a chunk was playing: the teardown has
\* emptied the sources and reset the cursor
C13_Witness ==
  /\ session = 0 /\ ~scriptProcessor /\ ~mediaStream /\ ~isConnected
  /\ sources = {} /\ nextStartTime = 0
  /\ \E k \in 1..Len(started) : started[k].start + started[k].dur > now
  /\ \E i \in Ids : chan[i] = "closing"

\* ------------------------------------------------------------ C14
OpenChannels == {i \in Ids : chan[i] = "open"}

\* C14: at most one channel is open at any moment, and while a connection
\* attempt is in progress the previous connection is torn down: no channel is
\* open, sessionRef and scriptProcessorRef are null and no source is active.
C14_SingleLive ==
  /\ Cardinality(OpenChannels) <= 1
  /\ InFlight # {} =>
       /\ OpenChannels = {}
       /\ session = 0
       /\ ~scriptProcessor
       /\ sources = {}

\* ------------------------------------------------------------ C15
\* C15: a user-initiated disconnect clears every pending reconnection timer:
\* after the step in which disconnect is called no timer is pending, neither
\* the one reconnectTimerRef names nor one armed before it.
C15_TimersCleared ==
  [][ disc' = disc + 1 => (reconnectTimer' # "pending" /\ strayTimers' = 0) ]_vars

\* ------------------------------------------------------------ C16
\* C16: when a channel error or close is handled on a connected session while
\* isIntentionalDisconnect is false, the status becomes Reconnecting; and it
\* is Reconnecting while the backoff timer of a failed connection is pending
\* (no attempt in progress, not connected, not stopped by the user, the
\* ceiling not hit).
C16_EntersReconnecting ==
  [][ /\ (isConnected /\ ~isIntentionalDisconnect /\ ChannelFailure) =>
            status' = "RECONNECTING"
      /\ (ReconnectionContinue /\ reconnectTimer' = "pending" /\ strayTimers' = 0
            /\ ~isConnected' /\ ~isConnecting' /\ status # "ERROR") =>
            status' = "RECONNECTING"
    ]_vars

\* ------------------------------------------------------------ C17
\* a fatal-local failure: the credential is missing, or getUserMedia rejects
FatalLocal == ~apiKey \/ \E i \in Ids : inits[i] = "gum" /\ InitReject(i)

\* handleReconnection takes its ceiling branch
CeilingHit ==
  /\ ReconnectionContinue
  /\ ~isIntentionalDisconnect
  /\ reconnectAttempts = MAX_RECONNECT_ATTEMPTS

\* the handshake of an attempt fails (its promise rejects) with retries left
HandshakeFails ==
  /\ reconnectAttempts < MAX_RECONNECT_ATTEMPTS
  /\ \E i \in Ids : inits[i] = "connect" /\ InitReject(i)

\* C17: the status becomes Error only in a step that handles a fatal-local
\* failure or takes the ceiling branch, and a connection attempt whose
\* handshake fails with retries remaining does not set it to Error.
C17_ErrorPropagation ==
  [][ /\ (status' = "ERROR" /\ status # "ERROR") => (FatalLocal \/ CeilingHit)
      /\ HandshakeFails => status' # "ERROR"
    ]_vars

\* ------------------------------------------------------------ C18
\* a buffer extended by a fragment ("" stands for no fragment)
Grown(buffer, fragment) ==
  IF fragment # "" THEN Append(buffer, fragment) ELSE buffer

\* C18: when a message that does not complete the turn is handled, the input
\* buffer grows by the message's input fragment and the output buffer by its
\* output fragment, also when the message carries both.
C18_FragmentsAppended ==
  [][ \A m \in TextMsgs :
        (~m.turnComplete /\ Handles(m)) =>
          /\ transcriptionBuffer'.input = Grown(transcriptionBuffer.input, m.input)
          /\ transcriptionBuffer'.output = Grown(transcriptionBuffer.output, m.output)
    ]_vars

\* ------------------------------------------------------------ C19
\* the step continues a message handler after a decode
Decoded == Len(started') = Len(started) + 1

\* messages carrying a single transcript fragment and nothing else
InputOnly == {m \in TextMsgs : m.input # "" /\ m.output = ""
                                /\ ~m.turnComplete /\ ~m.interrupted}
OutputOnly == {m \in TextMsgs : m.output # "" /\ m.input = ""
                                 /\ ~m.turnComplete /\ ~m.interrupted}

\* C19: on an open connection, handling a partial input transcript sets the
\* status to Listening and handling a partial output transcript sets it to
\* Speaking; and no step of the message handler (a message of any kind, or
\* its continuation after a decode) sets the status to Reconnecting, Error or
\* Thinking: the status after the step is Idle, Listening or Speaking, and
\* after a decode it is what it was, or Idle if the message was interrupted.
C19_EventDrivenStatus ==
  [][ /\ \A m \in InputOnly : Handles(m) => status' = "LISTENING"
      /\ \A m \in OutputOnly : Handles(m) => status' = "SPEAKING"
      /\ (nMsg' = nMsg + 1 \/ Decoded) => status' \in {"IDLE", "LISTENING", "SPEAKING"}
      /\ Decoded => status' \in {status, "IDLE"}
    ]_vars

\* an input fragment and then an audio chunk have been received and the chunk
\* has been scheduled: the status is still Listening
C19_Witness ==
  /\ status = "LISTENING"
  /\ transcriptionBuffer.input # <<>>
  /\ Len(started) = 1
  /\ \E i \in Ids : chan[i] = "open"

\* ------------------------------------------------------------ C20
\* attempts waiting for getUserMedia, where initSession first suspends
AtGum == {i \in Ids : inits[i] = "gum"}

\* the step takes an initSession call past its guard
AttemptStarts == Cardinality(AtGum') > Cardinality(AtGum)

\* C20: while a teardown is in its cool-down (a handleReconnection or a
\* disconnect is waiting in `await cleanup()`), no step starts a connection
\* attempt, be it a timer callback or a press of the button.
C20_CoolDownOrdering ==
  [][ (hr > 0 \/ disc > 0) => ~AttemptStarts ]_vars

\* ------------------------------------------------------------ C21
\* C21: a press of the button in a state other than Idle (and other than
\* Error, from which a press is a new start) is a stop: it calls disconnect,
\* which sets isIntentionalDisconnect and clears the timer reconnectTimerRef
\* names, and it starts no connection attempt. The backoff wait, with the
\* reconnection timer pending, is such a state.
C21_ToggleStops ==
  [][ (status \notin {"IDLE", "ERROR"} /\ ToggleSession) =>
         /\ disc' = disc + 1
         /\ isIntentionalDisconnect'
         /\ reconnectTimer' # "pending"
         /\ ~AttemptStarts
    ]_vars

\* ------------------------------------------------------------ C22
\* One press of the button, after which the user does nothing and no socket
\* ever opens: every attempt ends in a rejected promise or in the error and
\* close events of its socket.
FirstPress ==
  /\ status = "IDLE"
  /\ ToggleSession

NextRetry ==
  \/ FirstPress
  \/ \E i \in Ids : GumResolve(i)
  \/ \E i \in Ids : InitReject(i)
  \/ \E i \in Ids : OnError(i)
  \/ \E i \in Ids : OnClose(i)
  \/ ReconnectionContinue
  \/ TimerFire
  \/ StrayTimerFire

\* The event loop runs every continuation that is ready, every timer that is
\* due fires, every pending promise settles and a socket that does not open
\* reports its failure.
SpecRetry ==
  /\ Init
  /\ [][NextRetry]_vars
  /\ WF_vars(FirstPress)
  /\ WF_vars(\E i \in Ids : GumResolve(i) \/ InitReject(i))
  /\ WF_vars(\E i \in Ids : OnError(i) \/ OnClose(i))
  /\ WF_vars(ReconnectionContinue)
  /\ WF_vars(TimerFire)
  /\ WF_vars(StrayTimerFire)

\* nothing can run any more
Halted == ~ENABLED NextRetry

\* C22: when every attempt fails and the user takes no action, the controller
\* eventually is in ERROR with no timer pending and stays so. (A behaviour
\* that halts is one that has come to rest there or one the bounds MaxHr,
\* MaxStray, MaxLive cut short; only the first kind and the behaviours that
\* never halt are judged.)
C22_BoundedRetry ==
  \/ <>[](status = "ERROR" /\ ~TimerPending)
  \/ <>[](Halted /\ ~(status = "ERROR" /\ ~TimerPending))

\* ------------------------------------------------------------ C23
\* C23: once the teardown of a disconnect has run (cleanup has cleared
\* isConnected), both transcript buffers are empty, so that nothing received
\* before the disconnect can reach the entry of a later turn.
C23_BuffersReset ==
  ~isConnected => transcriptionBuffer = [input |-> <<>>, output |-> <<>>]

\* ------------------------------------------------------------ C24
\* timers that have been armed and have neither fired nor been cleared
PendingTimers == Bit(reconnectTimer = "pending") + strayTimers

\* C24: one failure starts one reconnection. The close event of a socket
\* that has already reported its error starts no second handleReconnection
\* call, and at every moment at most one reconnection timer is pending.
C24_OneReconnection ==
  [][ /\ \A i \in Ids :
           (chan[i] = "failed" /\ ~isIntentionalDisconnect /\ OnClose(i)) => hr' = hr
      /\ PendingTimers' <= 1
    ]_vars

\* ------------------------------------------------------------ C25
\* an error or close event of a socket that cleanup has already closed
StaleEvent == \E i \in Ids : chan[i] = "closing" /\ (OnError(i) \/ OnClose(i))

\* C25: an event of a socket that has been torn down leaves the newer
\* connection alone: it starts no handleReconnection call (so no cleanup),
\* changes neither isConnected nor sessionRef nor isConnectingRef, leaves
\* reconnectAttempts as it is and arms no timer.
C25_StaleEventsHarmless ==
  [][ StaleEvent =>
        /\ hr' = hr
        /\ isConnected' = isConnected
        /\ isConnecting' = isConnecting
        /\ (session' = 0) = (session = 0)
        /\ reconnectAttempts' = reconnectAttempts
        /\ PendingTimers' = PendingTimers
    ]_vars

\* ------------------------------------------------------------ C26
\* C26: no chunk whose decode was in flight when cleanup ran is started or
\* added to the active sources afterwards, and from the teardown until a new
\* connection is open the set of active sources is empty and the cursor is 0.
C26_NoPlaybackAfterTeardown ==
  /\ \A k \in 1..Len(started) : ~started[k].torn
  /\ \A src \in sources : ~src.torn
  /\ ~isConnected => (sources = {} /\ nextStartTime = 0)

\* ------------------------------------------------------------ C27
\* Idle or Error with nothing going on: not connected, no attempt in flight,
\* no teardown in its cool-down
AtRest ==
  /\ status \in {"IDLE", "ERROR"}
  /\ ~isConnected
  /\ InFlight = {}
  /\ hr = 0
  /\ disc = 0

\* C27: at rest no microphone stream and no capture processor is held, and
\* no socket is open or opening.
C27_NoResourcesAtRest ==
  AtRest =>
    /\ ~mediaStream
    /\ ~scriptProcessor
    /\ session = 0
    /\ \A i \in Ids : chan[i] \notin {"connecting", "open"}

TypeOK ==
  /\ status \in JarvisStatus
  /\ reconnectAttempts \in 0..MAX_RECONNECT_ATTEMPTS
  /\ Len(delays) <= MAX_RECONNECT_ATTEMPTS
====
